---- MODULE Spec2Model ----
(***************************************************************************)
(* Dirac: the command executor (services/command.rs), the oracle client    *)
(* (services/ai.rs) and the terminal session (ui/terminal.rs).             *)
(*                                                                         *)
(* Text is modelled as a sequence of one-character strings, so that        *)
(* trimming, splitting and prefix tests are computed as the code computes  *)
(* them.  The file system is a fixed small tree of directories.            *)
(***************************************************************************)
EXTENDS Naturals, Sequences, FiniteSets

VARIABLES
    current_dir,   \* ShellCommandExecutor.current_dir (DirectoryState), text
    os_cwd,        \* the OS process working directory, canonical text; <<>> = unreadable
    pc,            \* position of the execute call: ready / waiting / oracle / panicked
    raw,           \* raw_text of the execute call in progress or last returned
    via,           \* how the shell was spawned: "none" / "std" / "tokio"
    child,         \* what the spawned shell does: status, stdout, stderr
    result,        \* what the last execute call returned
    spawned,       \* whether the call in progress / last returned spawned the shell
    dir_before,    \* current_dir when the call started
    cwd_before,    \* os_cwd when the call started
    step,          \* position of the resolution of a natural-language request
    reply,         \* what the oracle's HTTP call produced (while it is being handled)
    processed,     \* what OllamaProcessor::process returned for it
    input,         \* the trimmed input line of the cycle
    command,       \* the command text the terminal hands to execute
    explanation,   \* handle_ai_suggestion: the explanation presented
    answer,        \* what the last read at a confirmation prompt returned
    display,       \* what the terminal printed last
    chan,          \* run: the signal channel (capacity 1)
    stream,        \* run: the operator's input stream: open / eof / error
    oracle_calls   \* calls of ai_processor.process made by the terminal in this cycle

exec_vars == <<current_dir, os_cwd, pc, raw, via, child, result, spawned,
               dir_before, cwd_before>>

\* the variables of run alone
loop_vars == <<chan, stream, oracle_calls>>

ai_vars == <<step, reply, processed, input, command, explanation, answer,
             display, loop_vars>>

vars == <<exec_vars, ai_vars>>

-----------------------------------------------------------------------------
(* Bounds *)

\* longest path text the OS accepts in chdir (PATH_MAX, scaled down)
PathMax == 7

\* most lines in the text of an oracle response
MaxLines == 2

-----------------------------------------------------------------------------
(* Text helpers (Rust str methods used by the code) *)

\* char::is_whitespace, over the characters of the model
IsWs(c) == c \in {" ", "\t", "\n"}

RECURSIVE TrimStart(_)
TrimStart(s) ==
    IF s = <<>> THEN s
    ELSE IF IsWs(Head(s)) THEN TrimStart(Tail(s)) ELSE s

RECURSIVE TrimEnd(_)
TrimEnd(s) ==
    IF s = <<>> THEN s
    ELSE IF IsWs(s[Len(s)]) THEN TrimEnd(SubSeq(s, 1, Len(s) - 1)) ELSE s

\* str::trim
Trim(s) == TrimEnd(TrimStart(s))

\* str::starts_with
StartsWith(s, p) == Len(s) >= Len(p) /\ SubSeq(s, 1, Len(p)) = p

\* str::contains(char)
Contains(s, c) == \E i \in 1..Len(s) : s[i] = c

\* index of the first character of s satisfying the test, 0 when there is none
FirstSpace(s) ==
    IF \E i \in 1..Len(s) : s[i] = " "
    THEN CHOOSE i \in 1..Len(s) : s[i] = " " /\ \A j \in 1..(i-1) : s[j] /= " "
    ELSE 0

\* command.splitn(2, ' '): parts[0]
SplitHead(s) ==
    IF FirstSpace(s) = 0 THEN s ELSE SubSeq(s, 1, FirstSpace(s) - 1)

\* command.splitn(2, ' '): parts.get(1).unwrap_or("")
SplitArgs(s) ==
    IF FirstSpace(s) = 0 THEN <<>> ELSE SubSeq(s, FirstSpace(s) + 1, Len(s))

RECURSIVE UpToWs(_)
UpToWs(s) ==
    IF s = <<>> THEN s
    ELSE IF IsWs(Head(s)) THEN <<>> ELSE <<Head(s)>> \o UpToWs(Tail(s))

\* command.split_whitespace().next().unwrap_or("")
FirstWord(s) == UpToWs(TrimStart(s))

RECURSIVE Words(_)
\* str::split_whitespace
Words(s) ==
    LET t == TrimStart(s) IN
    IF t = <<>> THEN <<>>
    ELSE <<UpToWs(t)>> \o Words(SubSeq(t, Len(UpToWs(t)) + 1, Len(t)))

\* Iterator::skip(n)
Skip(ws, n) == IF Len(ws) <= n THEN <<>> ELSE SubSeq(ws, n + 1, Len(ws))

RECURSIVE JoinSp(_)
\* [&str]::join(" ")
JoinSp(ws) ==
    IF ws = <<>> THEN <<>>
    ELSE IF Len(ws) = 1 THEN ws[1]
    ELSE ws[1] \o <<" ">> \o JoinSp(Tail(ws))

RECURSIVE TrimStartMatchesStr(_, _)
\* str::trim_start_matches(&str): every leading repetition of pre is removed
TrimStartMatchesStr(s, pre) ==
    IF pre /= <<>> /\ StartsWith(s, pre)
    THEN TrimStartMatchesStr(SubSeq(s, Len(pre) + 1, Len(s)), pre)
    ELSE s

-----------------------------------------------------------------------------
(* The file system and the OS working directory *)

\* the directories that exist, each a sequence of component names
DirTree ==
    { <<>>, << <<"a">> >>, << <<"a">>, <<"b">> >>, << <<"h">> >>,
      << <<"d", "d">> >> }

RECURSIVE Components(_, _)
\* the non-empty components of a path text, split at '/'
Components(s, acc) ==
    IF s = <<>> THEN (IF acc = <<>> THEN <<>> ELSE <<acc>>)
    ELSE IF Head(s) = "/"
         THEN (IF acc = <<>> THEN <<>> ELSE <<acc>>) \o Components(Tail(s), <<>>)
         ELSE Components(Tail(s), Append(acc, Head(s)))

NoDir == << <<"?">> >>

RECURSIVE Walk(_, _)
\* path resolution by the OS: follow the components from directory d;
\* NoDir when a component does not name an existing directory
Walk(comps, d) ==
    IF d = NoDir THEN NoDir
    ELSE IF comps = <<>> THEN d
    ELSE LET c == Head(comps) IN
         IF c = <<".">> THEN Walk(Tail(comps), d)
         ELSE IF c = <<".", ".">>
              THEN Walk(Tail(comps), IF d = <<>> THEN d ELSE SubSeq(d, 1, Len(d) - 1))
              ELSE IF Append(d, c) \in DirTree
                   THEN Walk(Tail(comps), Append(d, c))
                   ELSE NoDir

RECURSIVE Join(_)
Join(d) == IF d = <<>> THEN <<>> ELSE <<"/">> \o Head(d) \o Join(Tail(d))

\* the text getcwd reports for directory d
Canon(d) == IF d = <<>> THEN <<"/">> ELSE Join(d)

\* the directory a path text names for the OS (absolute, or relative to the
\* process working directory), NoDir when chdir would fail
Resolve(p) ==
    IF p = <<>> \/ Len(p) > PathMax THEN NoDir
    ELSE IF Head(p) = "/" THEN Walk(Components(p, <<>>), <<>>)
    ELSE IF os_cwd = <<>> THEN NoDir
    ELSE Walk(Components(p, <<>>), Components(os_cwd, <<>>))

\* env::current_dir() succeeded
CwdReadable == os_cwd /= <<>>

-----------------------------------------------------------------------------
(* Inputs: the command lines handed to execute *)

S_cd == <<"c", "d">>
S_ls == <<"l", "s">>
S_lsof == <<"l", "s", "o", "f">>
S_back == <<"b", "a", "c", "k">>

\* targets of cd, as typed after "cd "
CdTargets ==
    { <<"a">>, <<"b">>, <<"h">>, <<".", ".">>, <<".">>, <<"~">>, <<"q">>,
      <<"/", "a">>, <<"/", "a", "/", "b">>, <<"/", "q">>, <<"q", "/", "b">>,
      <<"a", "/">>, <<" ", "a">>, <<>>, S_back }

\* raw_text values: cd lines, empty and blank lines, commands on the search
\* path, a command that is not, and cd lines with other whitespace
Inputs ==
    { S_cd \o <<" ">> \o t : t \in CdTargets }
    \cup { <<>>, <<" ">>, <<"\t">>, <<" ", "\t", " ">>,
           S_cd, S_cd \o <<"\t", "a">>, <<" ">> \o S_cd \o <<" ", "a">>,
           S_ls, S_ls \o <<" ", "a">>, S_lsof, <<"z">> }

\* names that which() finds on the search path
Executables == { S_ls, S_lsof }

\* what a spawned shell can do: exit status zero / non-zero, killed by a
\* signal, or never complete; with or without text on stdout and stderr
ChildOutcomes ==
    [status : {"zero", "nonzero", "signal"}, stdout : BOOLEAN, stderr : BOOLEAN]
    \cup { [status |-> "hang", stdout |-> FALSE, stderr |-> FALSE] }

NoChild == [status |-> "none", stdout |-> FALSE, stderr |-> FALSE]

\* io::ErrorKind of a failed spawn
SpawnErrors == {"NotFound", "PermissionDenied", "Other"}

-----------------------------------------------------------------------------
(* DiracResult<String> *)

Ok(out) == [kind |-> "Ok", variant |-> "none", msg |-> "none",
            suggestion |-> "none", out |-> out]

\* Err(DiracError::CommandExecutionError(..)): the message and the suggestion
\* appended to it
CommandExecutionError(msg, suggestion) ==
    [kind |-> "Err", variant |-> "CommandExecutionError", msg |-> msg,
     suggestion |-> suggestion, out |-> "none"]

NoResult == [kind |-> "None", variant |-> "none", msg |-> "none",
             suggestion |-> "none", out |-> "none"]

-----------------------------------------------------------------------------
(* ShellCommandExecutor *)

\* execute: command.trim().is_empty()
IsEmptyCommand(r) == Trim(r) = <<>>

\* execute: cmd == "cd"
IsCd(r) == SplitHead(r) = S_cd

\* is_valid_command without the search of the path
is_valid_command_NoWhich(cmd) == FirstWord(cmd) /= <<>>

\* is_valid_command
is_valid_command(cmd) ==
    LET first_word == FirstWord(cmd) IN
    IF first_word = <<>> THEN FALSE
    ELSE IF first_word = S_cd THEN TRUE
    ELSE first_word \in Executables

\* get_current_dir
get_current_dir == current_dir

\* NewDir without the join against the current directory
NewDir_NoJoin(path) == path

\* handle_cd: the directory text handed to set_current_dir
NewDir(path) ==
    IF StartsWith(path, <<"/">>) THEN path
    ELSE current_dir \o <<"/">> \o path

\* handle_cd: the suggestion chosen by the shape of the target
CdSuggestion(path) ==
    IF path = S_back THEN "back"
    ELSE IF Contains(path, "/") THEN "separator" ELSE "bare"

\* the text env::current_dir() stores into current_dir, when it can be read
Resync == IF CwdReadable THEN os_cwd ELSE current_dir

\* execute: !output.status.success() || !stderr.is_empty()
IsFailure(c) == c.status /= "zero" \/ c.stderr

\* execute: command.starts_with("lsof") || command.starts_with("netstat")
IsLongRunning(r) == StartsWith(r, S_lsof)

Begin(r) ==
    /\ pc = "ready"
    /\ raw' = r
    /\ dir_before' = current_dir
    /\ cwd_before' = os_cwd
    /\ UNCHANGED ai_vars

\* execute on an empty or blank command
ExecuteEmpty(r) ==
    /\ Begin(r)
    /\ IsEmptyCommand(r)
    /\ result' = CommandExecutionError("Empty command provided", "none")
    /\ spawned' = FALSE /\ via' = "none" /\ child' = NoChild
    /\ UNCHANGED <<current_dir, os_cwd, pc>>

\* handle_cd storing the new directory before set_current_dir has succeeded
handle_cd_StoreFirst(args) ==
    LET path == Trim(args) IN
    IF path = <<>>
    THEN /\ result' = CommandExecutionError("No path specified for cd", "none")
         /\ UNCHANGED <<current_dir, os_cwd>>
    ELSE LET new_dir == NewDir(path) IN
         /\ current_dir' = new_dir
         /\ IF Resolve(new_dir) /= NoDir
            THEN /\ os_cwd' = Canon(Resolve(new_dir))
                 /\ result' = Ok("empty")
            ELSE /\ result' = CommandExecutionError("Failed to change directory",
                                                    CdSuggestion(path))
                 /\ UNCHANGED os_cwd

\* handle_cd storing the new directory without changing the directory of the
\* process
handle_cd_NoChdir(args) ==
    LET path == Trim(args) IN
    IF path = <<>>
    THEN /\ result' = CommandExecutionError("No path specified for cd", "none")
         /\ UNCHANGED <<current_dir, os_cwd>>
    ELSE LET new_dir == NewDir(path) IN
         IF Resolve(new_dir) /= NoDir
         THEN /\ current_dir' = new_dir
              /\ result' = Ok("empty")
              /\ UNCHANGED os_cwd
         ELSE /\ result' = CommandExecutionError("Failed to change directory",
                                                 CdSuggestion(path))
              /\ UNCHANGED <<current_dir, os_cwd>>

\* execute on cd: handle_cd
handle_cd(args) ==
    LET path == Trim(args) IN
    IF path = <<>>
    THEN /\ result' = CommandExecutionError("No path specified for cd", "none")
         /\ UNCHANGED <<current_dir, os_cwd>>
    ELSE LET new_dir == NewDir(path) IN
         IF Resolve(new_dir) /= NoDir
         THEN /\ os_cwd' = Canon(Resolve(new_dir))
              /\ current_dir' = new_dir
              /\ result' = Ok("empty")
         ELSE /\ result' = CommandExecutionError("Failed to change directory",
                                                 CdSuggestion(path))
              /\ UNCHANGED <<current_dir, os_cwd>>

ExecuteCd(r) ==
    /\ Begin(r)
    /\ ~IsEmptyCommand(r)
    /\ IsCd(r)
    /\ handle_cd(SplitArgs(r))
    /\ spawned' = FALSE /\ via' = "none" /\ child' = NoChild
    /\ UNCHANGED pc

\* execute on a command that is not on the search path
ExecuteInvalid(r) ==
    /\ Begin(r)
    /\ ~IsEmptyCommand(r)
    /\ ~IsCd(r)
    /\ current_dir' = Resync
    /\ ~is_valid_command(SplitHead(r))
    /\ result' = CommandExecutionError("not found or not executable", "none")
    /\ spawned' = FALSE /\ via' = "none" /\ child' = NoChild
    /\ UNCHANGED <<os_cwd, pc>>

\* execute: the shell is spawned and the call waits for its output
ExecuteSpawn(r, c) ==
    /\ Begin(r)
    /\ ~IsEmptyCommand(r)
    /\ ~IsCd(r)
    /\ current_dir' = Resync
    /\ is_valid_command(SplitHead(r))
    /\ via' = IF IsLongRunning(r) THEN "tokio" ELSE "std"
    /\ spawned' = TRUE
    /\ child' = c
    /\ pc' = "waiting"
    /\ result' = NoResult
    /\ UNCHANGED os_cwd

\* execute: the spawn itself fails and the error is mapped
ExecuteSpawnFail(r, e) ==
    /\ Begin(r)
    /\ ~IsEmptyCommand(r)
    /\ ~IsCd(r)
    /\ current_dir' = Resync
    /\ is_valid_command(SplitHead(r))
    /\ spawned' = TRUE
    /\ child' = NoChild
    /\ via' = IF IsLongRunning(r) THEN "tokio" ELSE "std"
    /\ IF IsLongRunning(r)
       THEN /\ result' = CommandExecutionError("spawn error", "none")
            /\ pc' = "ready"
       ELSE IF e = "NotFound"
            THEN /\ result' = CommandExecutionError("spawn error", "not found")
                 /\ pc' = "ready"
       ELSE IF e = "PermissionDenied"
            THEN /\ result' = CommandExecutionError("spawn error", "permission")
                 /\ pc' = "ready"
       ELSE \* Runtime::new().unwrap().block_on(..): the oracle call runs when
            \* the calling thread drives no runtime, and block_on panics
            \* when it does
            /\ result' = NoResult
            /\ pc' \in {"oracle", "panicked"}
    /\ UNCHANGED os_cwd

\* the output of the shell arrives and the status is good
ChildExitOk ==
    /\ pc = "waiting"
    /\ child.status /= "hang"
    /\ ~IsFailure(child)
    /\ current_dir' = Resync
    /\ result' = Ok(IF child.stdout THEN "stdout" ELSE "empty")
    /\ pc' = "ready"
    /\ UNCHANGED <<os_cwd, raw, via, child, spawned, dir_before, cwd_before>>
    /\ UNCHANGED ai_vars

\* the output of the shell arrives and the call reports a failure
ChildExitFail ==
    /\ pc = "waiting"
    /\ child.status /= "hang"
    /\ IsFailure(child)
    /\ current_dir' = Resync
    /\ IF SplitHead(raw) = S_cd
       THEN /\ result' = CommandExecutionError(
                             IF child.stderr THEN "stderr" ELSE "Command failed",
                             CdSuggestion(Trim(SplitArgs(raw))))
            /\ pc' = "ready"
       ELSE \* Runtime::new().unwrap().block_on(..): the oracle call runs when
            \* the calling thread drives no runtime, and block_on panics
            \* when it does
            /\ result' = NoResult
            /\ pc' \in {"oracle", "panicked"}
    /\ UNCHANGED <<os_cwd, raw, via, child, spawned, dir_before, cwd_before>>
    /\ UNCHANGED ai_vars

\* the executor's own oracle call returns and the failure is returned
OracleReply(ok) ==
    /\ pc = "oracle"
    /\ result' = CommandExecutionError(
                     IF child.status = "none" THEN "spawn error"
                     ELSE IF child.stderr THEN "stderr" ELSE "Command failed",
                     IF ok THEN "ai" ELSE "ai fallback")
    /\ pc' = "ready"
    /\ UNCHANGED <<current_dir, os_cwd, raw, via, child, spawned, dir_before,
                   cwd_before>>
    /\ UNCHANGED ai_vars

-----------------------------------------------------------------------------
(* OllamaProcessor::process: the oracle call and the parse of its response.  *)
(* A response text is a sequence of characters in which each of the two      *)
(* prefixes and each fixed explanation text is one unit.                     *)

P_COMMAND == "COMMAND:"
P_EXPLANATION == "EXPLANATION:"

\* the fixed explanation texts
SafeDefault ==
    <<"Lists files and directories in the current directory. This is a safe default command when the request is unclear.">>
Unprocessed ==
    <<"Lists files and directories in the current directory. This is a safe default command when the request cannot be processed.">>
Generic == <<"Executes the specified command.">>

\* lines the oracle may write: well-formed fields, an empty field, a repeated
\* prefix, an indented prefix, other text, an empty and a blank line
ResponseLines ==
    { <<P_COMMAND, " ", "w">>,
      <<P_COMMAND, " ", "c", "d", " ", "a">>,
      <<P_COMMAND>>,
      <<P_COMMAND, P_COMMAND, "z", " ">>,
      <<" ", P_COMMAND, " ", "w">>,
      <<P_EXPLANATION, " ", "x">>,
      <<P_EXPLANATION, " ">>,
      <<"z">>,
      <<>>,
      <<" ">> }

RECURSIVE JoinLines(_)
JoinLines(ls) ==
    IF ls = <<>> THEN <<>>
    ELSE IF Len(ls) = 1 THEN ls[1]
    ELSE ls[1] \o <<"\n">> \o JoinLines(Tail(ls))

\* the response texts: up to MaxLines lines
Texts ==
    { JoinLines(ls) : ls \in UNION { [1..n -> ResponseLines] : n \in 0..MaxLines } }

\* what the HTTP call can produce: a transport failure (a failed connection,
\* a timeout, a connection attempt that timed out, any other), an unreadable
\* body, a body that is not JSON, JSON with an error field, JSON with neither
\* field, JSON whose response is no string, JSON with a response text
ReplyKinds ==
    {"connect", "timeout", "connect_timeout", "transport", "read", "not_json",
     "error_model", "error_other", "no_field", "not_string"}

Replies ==
    { [kind |-> k, text |-> <<>>] : k \in ReplyKinds }
    \cup { [kind |-> "response", text |-> t] : t \in Texts }

NoReply == [kind |-> "none", text |-> <<>>]

\* DiracResult<String> of process
AiOk(text) == [kind |-> "Ok", text |-> text, err |-> "none"]
AIProcessingError(err) == [kind |-> "Err", text |-> <<>>, err |-> err]
NoProcessed == [kind |-> "None", text |-> <<>>, err |-> "none"]

RECURSIVE SplitNewline(_, _)
SplitNewline(s, acc) ==
    IF s = <<>> THEN <<acc>>
    ELSE IF Head(s) = "\n" THEN <<acc>> \o SplitNewline(Tail(s), <<>>)
    ELSE SplitNewline(Tail(s), Append(acc, Head(s)))

\* str::lines
Lines(s) ==
    LET parts == SplitNewline(s, <<>>) IN
    IF parts[Len(parts)] = <<>> THEN SubSeq(parts, 1, Len(parts) - 1) ELSE parts

RECURSIVE TrimStartMatches(_, _)
\* str::trim_start_matches(prefix): every leading repetition is removed
TrimStartMatches(s, prefix) ==
    IF s /= <<>> /\ Head(s) = prefix THEN TrimStartMatches(Tail(s), prefix) ELSE s

RECURSIVE ParseField(_, _, _)
\* the loop over the lines: each line with the prefix assigns the field
ParseField(lines, prefix, acc) ==
    IF lines = <<>> THEN acc
    ELSE ParseField(Tail(lines), prefix,
                    IF StartsWith(Head(lines), <<prefix>>)
                    THEN Trim(TrimStartMatches(Head(lines), prefix))
                    ELSE acc)

\* format!("COMMAND: {}\nEXPLANATION: {}", command, explanation)
Format(c, e) == <<P_COMMAND, " ">> \o c \o <<"\n", P_EXPLANATION, " ">> \o e

\* Fallback that never uses the explanation the oracle gave for the default command
Fallback_DropExplanation(c, e) ==
    IF c = <<>> THEN <<S_ls, SafeDefault>>
    ELSE IF e = <<>> THEN <<c, Generic>> ELSE <<c, e>>

\* Fallback that leaves an empty explanation empty
Fallback_KeepEmpty(c, e) ==
    IF c = <<>> THEN <<S_ls, IF e = <<>> THEN SafeDefault ELSE e>>
    ELSE <<c, e>>

\* process: "Ensure we always return a valid command and explanation"
Fallback(c, e) ==
    IF c = <<>> THEN <<S_ls, IF e = <<>> THEN SafeDefault ELSE e>>
    ELSE IF e = <<>> THEN <<c, Generic>>
    ELSE <<c, e>>

\* process: the response field of the JSON body
ParseResponse(text) ==
    LET response_text == Trim(text) IN
    IF response_text = <<>> THEN AiOk(Format(S_ls, SafeDefault))
    ELSE LET lines == Lines(response_text)
             f == Fallback(ParseField(lines, P_COMMAND, <<>>),
                           ParseField(lines, P_EXPLANATION, <<>>))
         IN  AiOk(Format(f[1], f[2]))

\* send() returned an error
IsSendError(rep) ==
    rep.kind \in {"connect", "timeout", "connect_timeout", "transport"}

\* reqwest::Error::is_connect, is_timeout: a connection attempt that timed out
\* answers to both
is_connect(rep) == rep.kind \in {"connect", "connect_timeout"}
is_timeout(rep) == rep.kind \in {"timeout", "connect_timeout"}

\* the map_err closure asking is_timeout before is_connect
SendError_TimeoutFirst(rep) ==
    IF is_timeout(rep) THEN "timed out"
    ELSE IF is_connect(rep) THEN "service not running"
    ELSE "failed to connect"

\* process: the map_err closure of send()
SendError(rep) ==
    IF is_connect(rep) THEN "service not running"
    ELSE IF is_timeout(rep) THEN "timed out"
    ELSE "failed to connect"

\* process: from the outcome of the HTTP call to the returned result
process(rep) ==
    CASE IsSendError(rep) -> AIProcessingError(SendError(rep))
      [] rep.kind = "read" -> AIProcessingError("failed to read")
      [] rep.kind = "error_model" -> AIProcessingError("model not found")
      [] rep.kind = "error_other" -> AIProcessingError("ollama error")
      [] rep.kind = "not_string" -> ParseResponse(<<>>)
      [] rep.kind = "response" -> ParseResponse(rep.text)
      [] OTHER -> AiOk(Format(S_ls, Unprocessed))

-----------------------------------------------------------------------------
(* DiracTerminal: resolution of a natural-language request *)

\* what the operator can answer at a confirmation prompt; ok = FALSE when
\* readline fails
Answers ==
    { [ok |-> TRUE, line |-> l] :
        l \in { <<"y">>, <<"Y">>, <<" ", "y", " ">>, <<"e">>, <<"E">>, <<"n">>,
                <<>>, <<"y", "e", "s">> } }
    \cup { [ok |-> FALSE, line |-> <<>>] }

\* no confirmation prompt has been answered in this cycle
NoAnswer == [ok |-> FALSE, line |-> <<"-">>]

\* str::to_lowercase, over the characters of the model
ToLower(s) ==
    [i \in 1..Len(s) |-> IF s[i] = "Y" THEN "y" ELSE IF s[i] = "E" THEN "e" ELSE s[i]]

\* a new input cycle: nothing is left of the last execute call but the
\* directory it left behind
NewCycle ==
    /\ raw' = <<>>
    /\ via' = "none"
    /\ child' = NoChild
    /\ result' = NoResult
    /\ spawned' = FALSE
    /\ dir_before' = current_dir
    /\ cwd_before' = os_cwd
    /\ UNCHANGED <<current_dir, os_cwd, pc>>

\* process_ai_command: the oracle is called with the request
ProcessAiCommand ==
    /\ step = "idle"
    /\ pc = "ready"
    /\ step' = "awaiting_oracle"
    /\ reply' = NoReply
    /\ processed' = NoProcessed
    /\ command' = <<>>
    /\ explanation' = <<>>
    /\ answer' = NoAnswer
    /\ display' = "processing"
    /\ UNCHANGED loop_vars
    /\ NewCycle

\* process_ai_command presenting the default command when the oracle failed
AiReplies_SuggestOnError(rep) ==
    /\ step = "awaiting_oracle"
    /\ reply' = rep
    /\ processed' = process(rep)
    /\ command' = S_ls
    /\ explanation' = <<SafeDefault>>
    /\ step' = "awaiting_confirmation"
    /\ display' = "suggestion"
    /\ UNCHANGED <<input, answer, loop_vars>>
    /\ UNCHANGED exec_vars

\* process returns; handle_ai_error, or handle_ai_suggestion up to its prompt
AiReplies(rep) ==
    /\ step = "awaiting_oracle"
    /\ reply' = rep
    /\ processed' = process(rep)
    /\ IF process(rep).kind = "Ok"
       THEN LET lines == Lines(process(rep).text)
                c == ParseField(lines, P_COMMAND, <<>>)
                e == ParseField(lines, P_EXPLANATION, <<>>)
            IN  /\ command' = c
                /\ explanation' = e
                /\ step' = IF c = <<>> THEN "idle" ELSE "awaiting_confirmation"
                /\ display' = IF c = <<>> THEN "no command" ELSE "suggestion"
       ELSE /\ command' = <<>>
            /\ explanation' = <<>>
            /\ step' = "idle"
            /\ display' = "ai error"
    /\ UNCHANGED <<input, answer, loop_vars>>
    /\ UNCHANGED exec_vars

\* handle_ai_suggestion accepting every answer that begins with y
Confirm_PrefixYes(ans) ==
    /\ step = "awaiting_confirmation"
    /\ reply' = NoReply
    /\ processed' = NoProcessed
    /\ step' = IF ans.ok /\ StartsWith(ToLower(Trim(ans.line)), <<"y">>)
               THEN "executing" ELSE "idle"
    /\ result' = IF step' = "executing" THEN NoResult ELSE result
    /\ answer' = ans
    /\ UNCHANGED <<input, command, explanation, display, loop_vars>>
    /\ UNCHANGED <<current_dir, os_cwd, pc, raw, via, child, spawned,
                   dir_before, cwd_before>>

\* handle_ai_suggestion: the answer to "execute this command? [y/N/e]"
Confirm(ans) ==
    /\ step = "awaiting_confirmation"
    /\ reply' = NoReply
    /\ processed' = NoProcessed
    /\ step' = IF ~ans.ok THEN "idle"
               ELSE IF ToLower(Trim(ans.line)) = <<"y">> THEN "executing"
               ELSE IF ToLower(Trim(ans.line)) = <<"e">> /\ explanation /= <<>>
                    THEN "awaiting_confirmation2"
               ELSE "idle"
    /\ result' = IF step' = "executing" THEN NoResult ELSE result
    /\ answer' = ans
    /\ display' = IF ~ans.ok \/ step' = "executing" THEN display
                  ELSE IF step' = "awaiting_confirmation2" THEN "explanation"
                  ELSE IF ToLower(Trim(ans.line)) = <<"e">> THEN "no explanation"
                  ELSE "cancelled"
    /\ UNCHANGED <<input, command, explanation, loop_vars>>
    /\ UNCHANGED <<current_dir, os_cwd, pc, raw, via, child, spawned,
                   dir_before, cwd_before>>

\* handle_ai_suggestion: the answer to "execute this command now? [y/N]"
Confirm2(ans) ==
    /\ step = "awaiting_confirmation2"
    /\ step' = IF ans.ok /\ ToLower(Trim(ans.line)) = <<"y">>
               THEN "executing" ELSE "idle"
    /\ result' = IF step' = "executing" THEN NoResult ELSE result
    /\ answer' = ans
    /\ UNCHANGED <<reply, processed, input, command, explanation, display,
                   loop_vars>>
    /\ UNCHANGED <<current_dir, os_cwd, pc, raw, via, child, spawned,
                   dir_before, cwd_before>>

\* execute_direct_command: execute is about to be called with the command
Calling == step = "executing" /\ pc = "ready" /\ result.kind = "None"

RunCd == Calling /\ ExecuteCd(command)
RunInvalid == Calling /\ ExecuteInvalid(command)
RunSpawn(c) == Calling /\ ExecuteSpawn(command, c)
RunSpawnFail(e) == Calling /\ ExecuteSpawnFail(command, e)

\* execute_direct_command: the result is printed and the cycle is over
DisplayResult ==
    /\ step = "executing"
    /\ pc = "ready"
    /\ result.kind /= "None"
    /\ step' = "idle"
    /\ display' = IF result.kind = "Ok" THEN "output" ELSE "error"
    /\ UNCHANGED <<reply, processed, input, command, explanation, answer,
                   loop_vars>>
    /\ UNCHANGED exec_vars

S_cd_sp == S_cd \o <<" ">>
S_go_to == <<"g", "o", " ", "t", "o", " ">>
S_open == <<"o", "p", "e", "n", " ">>
S_change_to == <<"c", "h", "a", "n", "g", "e", " ", "t", "o", " ">>

\* the lines handed to process_command: the three navigation phrasings, cd
\* lines (to a directory, to a mistyped name), a command on the search path,
\* a natural-language request, a blank line
CommandLines ==
    { S_go_to \o <<"a">>, S_open \o <<"a">>, S_change_to \o <<"a">>,
      S_cd_sp \o <<"a">>, S_cd_sp \o <<"d", "x">>, S_ls, <<"z">>, <<" ">> }

\* Path::new(path).exists(), for a path relative to the OS working directory
Exists(path) == Resolve(path) /= NoDir

\* process_command: the directories of "." whose name starts like the path
Similar(path) ==
    IF ~CwdReadable THEN {}
    ELSE LET here == Resolve(<<".">>) IN
         { d[Len(d)] : d \in { e \in DirTree :
                                  /\ Len(e) = Len(here) + 1
                                  /\ SubSeq(e, 1, Len(here)) = here
                                  /\ Len(e[Len(e)]) >= 2
                                  /\ Len(path) >= 2
                                  /\ e[Len(e)][1] = path[1] } }

\* process_command: the typo check of a cd line stops the cycle
IsTypo(inp) ==
    /\ StartsWith(inp, S_cd_sp)
    /\ LET path == Trim(TrimStartMatchesStr(inp, S_cd_sp)) IN
       ~Exists(path) /\ Similar(path) /= {}

\* process_command: inp.starts_with("go to ") || .. "open " || .. "change to "
IsNavigation(inp) ==
    StartsWith(inp, S_go_to) \/ StartsWith(inp, S_open)
        \/ StartsWith(inp, S_change_to)

\* process_command: format!("cd {}", path), path the words after the second
cd_command(inp) == S_cd_sp \o JoinSp(Skip(Words(inp), 2))

\* process_command: execute_direct_command is entered with the command
Direct(cmd) ==
    /\ step' = "executing"
    /\ command' = cmd
    /\ explanation' = <<>>
    /\ reply' = NoReply
    /\ processed' = NoProcessed
    /\ answer' = NoAnswer
    /\ UNCHANGED <<display, loop_vars>>
    /\ NewCycle

\* process_command
ProcessCommand(line) ==
    /\ step = "idle"
    /\ pc = "ready"
    /\ input' = Trim(line)
    /\ IF input' = <<>> \/ IsTypo(input')
       THEN /\ display' = IF input' = <<>> THEN display ELSE "did you mean"
            /\ UNCHANGED <<step, reply, processed, command, explanation, answer,
                           loop_vars>>
            /\ UNCHANGED exec_vars
       ELSE IF IsNavigation(input') THEN Direct(cd_command(input'))
       ELSE IF is_valid_command(input') THEN Direct(input')
       ELSE ProcessAiCommand

-----------------------------------------------------------------------------
(* DiracTerminal::run: the foreground loop, the signal task, process_input *)

\* the notifications the signal task forwards
Signals == {"INT", "TSTP", "CONT"}

S_exit == <<"e", "x", "i", "t">>
S_quit == <<"q", "u", "i", "t">>

\* the lines the operator types at the prompt: cd to a directory and to a
\* missing one, a navigation phrasing, commands on the search path (std and
\* tokio spawn), a word that is no command, a blank line, exit and quit
InputLines ==
    { S_cd_sp \o <<"a">>, S_cd_sp \o <<"q">>, S_go_to \o <<"a">>,
      S_ls, S_lsof, <<"z">>, <<" ">>, S_exit, <<" ">> \o S_quit }

\* what readline returns: a line, or a ReadlineError; end of input either with
\* the stream still usable (CTRL-D at a terminal) or with the stream terminated
ReadOutcomes ==
    { [kind |-> "line", line |-> l] : l \in InputLines }
    \cup { [kind |-> k, line |-> <<>>] :
             k \in {"Interrupted", "Eof", "EofTerminated", "Other"} }

\* what the feedback call of process_input can produce
FeedbackReplies ==
    { r \in Replies : r.kind /= "response" }
    \cup { [kind |-> "response", text |-> <<P_EXPLANATION, " ", "x">>] }

\* the process is alive: the loop has not been left and nothing has panicked
Alive == step /= "done" /\ pc /= "panicked"

\* the signal task: a delivered signal is sent into the channel; send waits
\* while the single slot is taken
Signal(sig) ==
    /\ Alive
    /\ chan = <<>>
    /\ chan' = <<sig>>
    /\ UNCHANGED <<stream, oracle_calls>>
    /\ UNCHANGED <<step, reply, processed, input, command, explanation, answer,
                   display>>
    /\ UNCHANGED exec_vars

\* process_input is suspended at an await that is pending: on the shell
\* spawned through tokio, or on the feedback call
Suspended ==
    \/ step = "executing" /\ pc = "waiting" /\ via = "tokio"
    \/ step = "feedback"

\* the rx.recv() branch leaving the loop on INT
ServiceSignal_IntBreaks ==
    /\ Alive
    /\ chan /= <<>>
    /\ step = "idle" \/ Suspended
    /\ chan' = <<>>
    /\ display' = IF Head(chan) = "CONT" THEN "welcome" ELSE Head(chan)
    /\ step' = IF Head(chan) = "INT" THEN "done" ELSE "idle"
    /\ pc' = "ready"
    /\ UNCHANGED <<stream, oracle_calls>>
    /\ UNCHANGED <<reply, processed, input, command, explanation, answer>>
    /\ UNCHANGED <<current_dir, os_cwd, raw, via, child, result, spawned,
                   dir_before, cwd_before>>

\* run: the rx.recv() branch of select! completes first; the process_input
\* future of this iteration is dropped
ServiceSignal ==
    /\ Alive
    /\ chan /= <<>>
    /\ step = "idle" \/ Suspended
    /\ chan' = <<>>
    /\ display' = IF Head(chan) = "CONT" THEN "welcome" ELSE Head(chan)
    /\ step' = "idle"
    /\ pc' = "ready"
    /\ UNCHANGED <<stream, oracle_calls>>
    /\ UNCHANGED <<reply, processed, input, command, explanation, answer>>
    /\ UNCHANGED <<current_dir, os_cwd, raw, via, child, result, spawned,
                   dir_before, cwd_before>>

\* run: select! polls process_input, which prints the prompt and blocks in
\* readline
EnterRead ==
    /\ Alive
    /\ step = "idle"
    /\ step' = "reading"
    /\ oracle_calls' = 0
    /\ reply' = NoReply
    /\ processed' = NoProcessed
    /\ input' = <<>>
    /\ command' = <<>>
    /\ UNCHANGED <<explanation, answer, display, chan, stream>>
    /\ NewCycle

\* readline returns; process_input up to its call of execute, or run's match
\* on what process_input returned
ReadLine(r) ==
    /\ step = "reading"
    /\ stream = "eof" => r.kind = "EofTerminated"
    /\ LET line == Trim(r.line) IN
       /\ step' = IF r.kind = "line"
                  THEN (IF line = <<>> THEN "idle"
                        ELSE IF line \in {S_exit, S_quit} THEN "done"
                        ELSE "executing")
                  ELSE IF r.kind = "Other" THEN "done" ELSE "idle"
       /\ display' = IF r.kind = "line"
                     THEN (IF line \in {S_exit, S_quit} THEN "goodbye" ELSE display)
                     ELSE IF r.kind = "Other" THEN "read error"
                     ELSE IF r.kind = "Interrupted" THEN "Interrupted" ELSE "Eof"
       /\ input' = line
       /\ command' = IF step' = "executing" THEN line ELSE command
       /\ stream' = IF r.kind = "EofTerminated" THEN "eof"
                    ELSE IF r.kind = "Other" THEN "error" ELSE stream
    /\ UNCHANGED <<reply, processed, explanation, answer, chan, oracle_calls>>
    /\ UNCHANGED exec_vars

\* process_input: the match on what execute returned; after an error the
\* oracle is asked for feedback
ReportResult ==
    /\ step = "executing"
    /\ pc = "ready"
    /\ result.kind /= "None"
    /\ IF result.kind = "Ok"
       THEN /\ step' = "idle"
            /\ display' = "output"
            /\ UNCHANGED oracle_calls
       ELSE /\ step' = "feedback"
            /\ display' = "error"
            /\ oracle_calls' = oracle_calls + 1
    /\ UNCHANGED <<reply, processed, input, command, explanation, answer, chan,
                   stream>>
    /\ UNCHANGED exec_vars

\* process_input: the feedback call returns
FeedbackReply(rep) ==
    /\ step = "feedback"
    /\ reply' = rep
    /\ processed' = process(rep)
    /\ display' = IF process(rep).kind = "Ok" THEN "feedback" ELSE "feedback failed"
    /\ step' = "idle"
    /\ UNCHANGED <<input, command, explanation, answer, loop_vars>>
    /\ UNCHANGED exec_vars

\* ShellCommandExecutor::new, DiracTerminal::new
Init ==
    /\ os_cwd \in { Canon(d) : d \in DirTree } \cup { <<>> }
    /\ current_dir = IF os_cwd /= <<>> THEN os_cwd ELSE <<"/">>
    /\ pc = "ready"
    /\ raw = <<>>
    /\ via = "none"
    /\ child = NoChild
    /\ result = NoResult
    /\ spawned = FALSE
    /\ dir_before = current_dir
    /\ cwd_before = os_cwd
    /\ step = "idle"
    /\ reply = NoReply
    /\ processed = NoProcessed
    /\ input = <<>>
    /\ command = <<>>
    /\ explanation = <<>>
    /\ answer = NoAnswer
    /\ display = "welcome"
    /\ chan = <<>>
    /\ stream = "open"
    /\ oracle_calls = 0

Next ==
    \/ \E r \in Inputs : ExecuteEmpty(r)
    \/ \E r \in Inputs : ExecuteCd(r)
    \/ \E r \in Inputs : ExecuteInvalid(r)
    \/ \E r \in Inputs : \E c \in ChildOutcomes : ExecuteSpawn(r, c)
    \/ \E r \in Inputs : \E e \in SpawnErrors : ExecuteSpawnFail(r, e)
    \/ ChildExitOk
    \/ ChildExitFail
    \/ \E ok \in BOOLEAN : OracleReply(ok)

Spec == Init /\ [][Next]_vars

\* process_command and what it calls: classification, direct execution, the
\* oracle, confirmation, execution of the confirmed command
ResolveNext ==
    \/ \E line \in CommandLines : ProcessCommand(line)
    \/ \E rep \in Replies : AiReplies(rep)
    \/ \E ans \in Answers : Confirm(ans)
    \/ \E ans \in Answers : Confirm2(ans)
    \/ RunCd
    \/ RunInvalid
    \/ \E c \in ChildOutcomes : RunSpawn(c)
    \/ \E e \in SpawnErrors : RunSpawnFail(e)
    \/ ChildExitOk
    \/ ChildExitFail
    \/ \E ok \in BOOLEAN : OracleReply(ok)
    \/ DisplayResult

ResolveSpec == Init /\ [][ResolveNext]_vars

\* run: the loop the program ships with
RunNext ==
    \/ \E sig \in Signals : Signal(sig)
    \/ ServiceSignal
    \/ EnterRead
    \/ \E r \in ReadOutcomes : ReadLine(r)
    \/ RunCd
    \/ RunInvalid
    \/ \E c \in ChildOutcomes : RunSpawn(c)
    \/ \E e \in SpawnErrors : RunSpawnFail(e)
    \/ ChildExitOk
    \/ ChildExitFail
    \/ \E ok \in BOOLEAN : OracleReply(ok)
    \/ ReportResult
    \/ \E rep \in FeedbackReplies : FeedbackReply(rep)

RunSpec == Init /\ [][RunNext]_vars

\* the steps the program takes by itself: everything but the delivery of a
\* signal by the OS and the return of readline, which waits for the operator
LoopStep ==
    \/ ServiceSignal
    \/ EnterRead
    \/ RunCd
    \/ RunInvalid
    \/ \E c \in ChildOutcomes : RunSpawn(c)
    \/ \E e \in SpawnErrors : RunSpawnFail(e)
    \/ ChildExitOk
    \/ ChildExitFail
    \/ \E ok \in BOOLEAN : OracleReply(ok)
    \/ ReportResult
    \/ \E rep \in FeedbackReplies : FeedbackReply(rep)

\* the loop with its scheduling: a step the program can take by itself is
\* eventually taken, and select!, which polls its branches in random order,
\* does not pass over a notification every time it could be serviced
FairRunSpec == RunSpec /\ WF_vars(LoopStep) /\ SF_vars(ServiceSignal)

\* the same transitions, with every step that can be taken eventually taken:
\* a call that can continue does continue
FairSpec == Spec /\ WF_vars(Next)

-----------------------------------------------------------------------------
(* Claims about execute *)

\* an execute call has returned
Returned == pc = "ready" /\ result.kind /= "None"

\* the home directory
Home == << <<"h">> >>

\* C1: for every empty or blank raw_text, execute returns an error of kind
\* InputError, does not spawn the shell and leaves DirectoryState unchanged.
C1_EmptyIsInputError ==
    (Returned /\ Trim(raw) = <<>>) =>
        /\ result.kind = "Err"
        /\ result.variant = "InputError"
        /\ ~spawned
        /\ current_dir = dir_before

\* the target of the cd call, and the text the OS would have to resolve
CdTarget == Trim(SplitArgs(raw))
CdFullPath ==
    IF StartsWith(CdTarget, <<"/">>) THEN CdTarget
    ELSE dir_before \o <<"/">> \o CdTarget

\* C2: a cd whose target does not resolve to an existing directory returns a
\* Failure whose suggestion is keyed by the shape of the target ("back", has
\* a separator, bare name), and DirectoryState is what it was before the call.
C2_FailedCdKeepsDirectory ==
    (Returned /\ SplitHead(raw) = S_cd /\ CdTarget /= <<>>
              /\ Walk(Components(CdFullPath, <<>>), <<>>) = NoDir) =>
        /\ result.kind = "Err"
        /\ result.suggestion =
               (IF CdTarget = S_back THEN "back"
                ELSE IF \E i \in 1..Len(CdTarget) : CdTarget[i] = "/"
                     THEN "separator" ELSE "bare")
        /\ current_dir = dir_before
        /\ os_cwd = cwd_before

\* a cd to a missing directory below a directory other than the root failed
C2_Witness ==
    /\ Returned /\ SplitHead(raw) = S_cd
    /\ CdTarget = <<"q", "/", "b">>
    /\ result.suggestion = "separator"
    /\ dir_before = <<"/", "a">>

\* the canonical absolute form of the cd target joined against the prior
\* directory, a leading ~ standing for the home directory
CdCanonical ==
    IF StartsWith(CdTarget, <<"~">>)
    THEN Canon(Walk(Components(Tail(CdTarget), <<>>), Home))
    ELSE Canon(Walk(Components(CdFullPath, <<>>), <<>>))

\* C3: after a successful cd X, DirectoryState is the canonical absolute form
\* of X joined against the prior directory (no . or .. components, ~ expanded).
C3_CdStoresCanonical ==
    (Returned /\ SplitHead(raw) = S_cd /\ result.kind = "Ok") =>
        current_dir = CdCanonical

\* C4: in every state between calls, re-synchronizing DirectoryState from the
\* unchanged OS working directory leaves DirectoryState as it was.
C4_ResyncIsNoOp ==
    pc = "ready" => Resync = current_dir

\* C5: DirectoryState is always a syntactically absolute path (not empty,
\* begins with /); at construction it is the process working directory, or /
\* when that cannot be read.
C5_AlwaysAbsolute ==
    /\ current_dir /= <<>>
    /\ Head(current_dir) = "/"
    /\ (pc = "ready" /\ result.kind = "None") =>
           current_dir = (IF os_cwd /= <<>> THEN os_cwd ELSE <<"/">>)

\* a relative cd has succeeded and changed DirectoryState
C5_Witness ==
    /\ Returned /\ SplitHead(raw) = S_cd /\ result.kind = "Ok"
    /\ ~StartsWith(CdTarget, <<"/">>)
    /\ current_dir /= dir_before

\* C9: an execute call whose spawned shell never completes still returns, and
\* what it returns is a Failure tagged as a timeout.
C9_HungCommandTimesOut ==
    (pc = "waiting" /\ child.status = "hang") ~>
        (pc = "ready" /\ result.kind = "Err" /\ result.msg = "timed out")

\* C10: the exit status alone decides: once the shell's output is in, the
\* call is on its success path exactly when the status is zero, whatever was
\* written to stderr; a Failure needs a non-zero status, a signal, or a shell
\* that could not be spawned.
C10_ExitStatusDecides ==
    (spawned /\ pc /= "waiting") =>
        (result.kind = "Ok" <=> child.status = "zero")

-----------------------------------------------------------------------------
(* Claims about the oracle response parser and the confirmation step *)

\* the lines of the body of the response being handled
BodyLines == Lines(Trim(reply.text))

\* C6: for every response text the parse does not fail and applies the
\* fallback policy in order: blank body -> ls with the safe-default text; empty
\* parsed command -> ls with the parsed explanation, or the safe-default text
\* when that is empty too; command without explanation -> the command with
\* "Executes the specified command."; otherwise the parsed pair as it is.
C6_FallbackPolicy ==
    reply.kind \in {"response", "not_string"} =>
        LET c == ParseField(BodyLines, P_COMMAND, <<>>)
            e == ParseField(BodyLines, P_EXPLANATION, <<>>)
            out == IF Trim(reply.text) = <<>> THEN <<<<"l", "s">>, SafeDefault>>
                   ELSE IF c = <<>> /\ e = <<>> THEN <<<<"l", "s">>, SafeDefault>>
                   ELSE IF c = <<>> THEN <<<<"l", "s">>, e>>
                   ELSE IF e = <<>> THEN <<c, <<"Executes the specified command.">>>>
                   ELSE <<c, e>>
        IN  /\ processed.kind = "Ok"
            /\ processed.text =
                   <<"COMMAND:", " ">> \o out[1] \o <<"\n", "EXPLANATION:", " ">> \o out[2]

\* a response with an empty command and an explanation has been parsed
C6_Witness ==
    /\ reply.kind = "response"
    /\ reply.text = <<P_COMMAND, "\n", P_EXPLANATION, " ", "x">>
    /\ processed.text = <<P_COMMAND, " ", "l", "s", "\n", P_EXPLANATION, " ", "x">>

\* C7: at the confirmation prompts the command and the explanation presented
\* are both non-empty, whatever the oracle replied.
C7_ConfirmationNonEmpty ==
    step \in {"awaiting_confirmation", "awaiting_confirmation2"} =>
        command /= <<>> /\ explanation /= <<>>

\* the prompt is shown for a response that gave a command and no explanation
C7_Witness ==
    /\ step = "awaiting_confirmation"
    /\ reply.kind = "response"
    /\ reply.text = <<P_COMMAND, " ", "w">>
    /\ command = <<"w">>
    /\ explanation = Generic

RECURSIVE FirstField(_, _)
\* the trimmed remainder of the first line that begins with the prefix
FirstField(lines, prefix) ==
    IF lines = <<>> THEN <<>>
    ELSE IF StartsWith(Head(lines), <<prefix>>)
         THEN Trim(TrimStartMatches(Head(lines), prefix))
         ELSE FirstField(Tail(lines), prefix)

\* C8: the command (the explanation) presented is the trimmed remainder of the
\* FIRST line of the response that begins with COMMAND: (EXPLANATION:); later
\* lines with the same prefix do not change it.
C8_FirstLineWins ==
    (step = "awaiting_confirmation" /\ reply.kind = "response") =>
        /\ FirstField(BodyLines, P_COMMAND) /= <<>> =>
               command = FirstField(BodyLines, P_COMMAND)
        /\ FirstField(BodyLines, P_EXPLANATION) /= <<>> =>
               explanation = FirstField(BodyLines, P_EXPLANATION)

-----------------------------------------------------------------------------
(* Claims about the terminal session *)

\* the navigation line of the model and its target
GoToA == S_go_to \o <<"a">>

\* C11: for an input line "go to X", X an existing subdirectory of the current
\* directory, the input cycle of the session ends with DirectoryState at
\* <prior>/X and without any oracle call by the session.
C11_GoToChangesDirectory ==
    (step = "idle" /\ input = GoToA /\ cwd_before = <<"/">>) =>
        /\ current_dir = dir_before \o <<"/", "a">>
        /\ oracle_calls = 0

\* the target X of a navigation line, as typed after the phrasing
NavTarget(inp) ==
    Trim(SubSeq(inp,
                1 + (IF StartsWith(inp, S_go_to) THEN Len(S_go_to)
                     ELSE IF StartsWith(inp, S_open) THEN Len(S_open)
                     ELSE Len(S_change_to)),
                Len(inp)))

\* execute_direct_command has been entered for the input line itself, not for
\* a command the operator confirmed
DirectCycle == step = "executing" /\ answer = NoAnswer

\* C12: each of "go to X", "open X" and "change to X" is handed to direct
\* execution as exactly "cd X"; every other non-empty input is either handed to
\* direct execution unchanged, its head being executable, or sent to the oracle.
C12_NavigationIsCdX ==
    /\ (DirectCycle /\ IsNavigation(input)) =>
           command = S_cd_sp \o NavTarget(input)
    /\ (DirectCycle /\ ~IsNavigation(input)) =>
           is_valid_command(input) /\ command = input
    /\ (step = "awaiting_oracle") =>
           ~IsNavigation(input) /\ ~is_valid_command(input)

\* the operator answered y
IsYes(ans) == ans.ok /\ ans.line \in { <<"y">>, <<"Y">>, <<" ", "y", " ">> }

\* the operator asked for the explanation
IsExplain(ans) == ans.ok /\ ans.line \in { <<"e">>, <<"E">> }

\* the input line of the cycle went to the oracle
ResolutionCycle ==
    input /= <<>> /\ ~IsNavigation(input) /\ ~is_valid_command(input)

\* what a step from a confirmation prompt may do
AnswerStep ==
    step \in {"awaiting_confirmation", "awaiting_confirmation2"} =>
        IF IsYes(answer') THEN step' = "executing"
        ELSE /\ step' = IF step = "awaiting_confirmation" /\ IsExplain(answer')
                        THEN "awaiting_confirmation2" ELSE "idle"
             /\ UNCHANGED <<current_dir, os_cwd, raw, spawned, pc>>

\* C13: in a cycle that went to the oracle, execute is called only after the
\* operator answered y at the first or at the second confirmation; any other
\* answer, or a failed read, ends the cycle (or, for e at the first prompt,
\* leads to the second prompt) with no execution and DirectoryState unchanged.
C13_ExecutesOnlyAfterYes ==
    /\ [](ResolutionCycle /\ (step = "executing" \/ raw /= <<>> \/ pc /= "ready")
             => IsYes(answer))
    /\ [][AnswerStep]_vars

\* the command cd a of the oracle has been executed after e at the first and
\* y at the second confirmation
C13_Witness ==
    /\ ResolutionCycle
    /\ Returned
    /\ raw = S_cd_sp \o <<"a">>
    /\ result.kind = "Ok"
    /\ IsYes(answer)
    /\ display = "explanation"

\* C14: when a cd command fails, the session makes no oracle call in that
\* cycle.
C14_NoOracleAfterFailedCd ==
    (IsCd(raw) /\ result.kind = "Err") => (step /= "feedback" /\ oracle_calls = 0)

\* C15: no failed execution and no failed oracle call crashes the session or
\* ends it: the loop is left only by exit, quit or a failed read.
C15_FailuresAreNotFatal ==
    /\ pc /= "panicked"
    /\ step = "done" => (input \in {S_exit, S_quit} \/ stream = "error")

\* C16: the loop is left only by exit, quit or an unrecoverable error of the
\* input stream, and it is left in each of these cases: once the input stream
\* has terminated the session is over.
C16_LoopEndsOnEndOfInput ==
    /\ step = "done" => (input \in {S_exit, S_quit} \/ stream = "error")
    /\ stream \in {"eof", "error"} => step = "done"

\* a step of the loop that takes a notification out of the channel
Serviced == chan /= <<>> /\ chan' = <<>>

\* what servicing a notification may do
ServiceStep ==
    Serviced =>
        /\ step' = "idle"
        /\ pc' /= "panicked"
        /\ UNCHANGED <<current_dir, os_cwd, raw, spawned, oracle_calls, result>>
        /\ display' = IF Head(chan) = "CONT" THEN "welcome" ELSE Head(chan)

\* C17: servicing an interrupt or suspend notification does not end the
\* session, starts no execution and no oracle call and leaves DirectoryState
\* alone: it prints its guidance and the loop waits again; servicing a resume
\* notification clears the display and shows the welcome banner.
C17_SignalsAreAdvisory == [][ServiceStep]_vars

\* a suspend notification has been serviced after a directory change
C17_Witness ==
    /\ display = "TSTP"
    /\ chan = <<>>
    /\ step = "idle"
    /\ current_dir = <<"/", "/", "a">>

\* C18: a shell that was terminated by a signal is reported as a failure
\* "terminated by a signal", a shell that exited with a non-zero status is not.
C18_SignalIsDistinct ==
    (Returned /\ spawned /\ child.status \in {"signal", "nonzero"}) =>
        /\ result.kind = "Err"
        /\ (result.msg = "terminated by a signal") <=> (child.status = "signal")

\* the oracle call failed: in transport, or with an error reported by the service
IsOracleFailure(rep) ==
    IsSendError(rep) \/ rep.kind \in {"read", "error_model", "error_other"}

\* what the return of a failed oracle call may do
OracleFailureStep ==
    (step = "awaiting_oracle" /\ IsOracleFailure(reply')) =>
        /\ step' = "idle"
        /\ display' = "ai error"
        /\ UNCHANGED exec_vars

\* C19: when the oracle call of a resolution fails, the session reports the
\* error and is idle again: no confirmation prompt, no execution.
C19_OracleFailureEndsCycle ==
    /\ [][OracleFailureStep]_vars
    /\ [](step \in {"awaiting_confirmation", "awaiting_confirmation2"} =>
             ~IsOracleFailure(reply))

\* the service reported that the model is missing, and the session is idle
C19_Witness ==
    /\ step = "idle"
    /\ reply.kind = "error_model"
    /\ processed = AIProcessingError("model not found")
    /\ display = "ai error"
    /\ raw = <<>>

\* C20: a connection failure is reported as "service not running", a timeout
\* as "timed out", any other transport failure as "failed to connect"; the
\* first message is never given for a timeout, nor the second for a
\* connection failure.
C20_TransportMessages ==
    IsSendError(reply) =>
        /\ is_connect(reply) => processed.err = "service not running"
        /\ is_timeout(reply) => processed.err = "timed out"
        /\ (~is_connect(reply) /\ ~is_timeout(reply)) =>
               processed.err = "failed to connect"
        /\ processed.err = "service not running" => ~is_timeout(reply)
        /\ processed.err = "timed out" => ~is_connect(reply)

\* C20 (amended): a connection failure, a connection attempt that timed out
\* included, is reported as "service not running"; a timeout that is no
\* connection failure as "timed out"; any other transport failure as "failed
\* to connect"; "timed out" is never given for a connection failure.
C20_TransportMessagesAmended ==
    IsSendError(reply) =>
        /\ processed.kind = "Err"
        /\ is_connect(reply) => processed.err = "service not running"
        /\ (is_timeout(reply) /\ ~is_connect(reply)) => processed.err = "timed out"
        /\ (~is_connect(reply) /\ ~is_timeout(reply)) =>
               processed.err = "failed to connect"
        /\ processed.err = "timed out" => ~is_connect(reply)
        /\ processed.err = "service not running" => is_connect(reply)

\* a connection attempt that timed out has been reported
C20_Witness ==
    /\ reply.kind = "connect_timeout"
    /\ processed = AIProcessingError("service not running")
    /\ step = "idle"

-----------------------------------------------------------------------------
(* Claims about the validator and the cd decision *)

\* an execute call has started with this raw_text and got past its entry
Started == raw /= <<>> /\ (pc /= "ready" \/ result.kind /= "None")

\* the head of the call: the first whitespace-delimited token of raw_text
Head_(r) == FirstWord(r)

\* C21: is_valid_command is true exactly when the head is cd or is found on the
\* search path, and false for empty or blank text; a command that is no cd and
\* whose head is not found is rejected by execute without a shell being spawned.
C21_ValidatorAndRejection ==
    /\ is_valid_command(raw) <=>
           (Head_(raw) = S_cd \/ Head_(raw) \in Executables)
    /\ Trim(raw) = <<>> => ~is_valid_command(raw)
    /\ (Started /\ Head_(raw) /= S_cd /\ Head_(raw) \notin Executables) =>
           /\ ~spawned
           /\ pc = "ready"
           /\ result.kind = "Err"

\* the word z, which is no command, has been rejected
C21_Witness ==
    /\ Returned
    /\ raw = <<"z">>
    /\ result.msg = "not found or not executable"
    /\ ~spawned

\* the call was answered by handle_cd
HandledAsCd ==
    /\ Returned
    /\ ~spawned
    /\ result.msg \notin {"not found or not executable", "Empty command provided"}

\* C22: execute handles the call as the built-in cd, without spawning the
\* shell, exactly when the first whitespace-delimited token of raw_text is cd,
\* whatever whitespace separates head and tail; the head of the cd decision
\* and the head the validator checks are that same token.
C22_CdByFirstToken ==
    (Started /\ Trim(raw) /= <<>>) =>
        /\ Head_(raw) = S_cd => (~spawned /\ (Returned => HandledAsCd))
        /\ Head_(raw) /= S_cd => ~HandledAsCd
        /\ SplitHead(raw) = Head_(raw)

-----------------------------------------------------------------------------
(* Claims about the loop and its notifications *)

\* the shell of this cycle ends in a failure
ChildFails == spawned /\ child.status /= "hang" /\ child.status /= "none"
                  /\ IsFailure(child)

\* C23: servicing a notification never abandons the input cycle in flight:
\* when the loop is idle again after a line whose shell failed, execute has
\* returned the failure and process_input has displayed it.
C23_FailureIsDisplayed ==
    (step = "idle" /\ raw /= <<>> /\ ChildFails) => result.kind = "Err"

\* the loop waits for the next input line
WaitingForLine == step \in {"idle", "reading"}

\* C24: while the loop waits for the next input line, a notification in the
\* channel is serviced without the operator having to submit a line first: it
\* does not stay in the channel for as long as the loop waits; and a pending
\* notification does not keep the loop from reading a line.
C24_SignalServicedWhileWaiting ==
    /\ (chan /= <<>> /\ WaitingForLine) ~> (chan = <<>> \/ ~WaitingForLine)
    /\ [](step = "idle" => ENABLED EnterRead)

\* oracle calls of this cycle made by execute itself (command.rs), made by
\* process_input (terminal.rs)
ExecutorCalls ==
    IF pc = "oracle" \/ result.suggestion \in {"ai", "ai fallback"} THEN 1 ELSE 0
SessionCalls == oracle_calls

\* the cycle of a command that is no cd has failed and is over: the loop is
\* idle again, or the program has stopped
FailedCycleOver ==
    /\ raw /= <<>>
    /\ ~IsCd(raw)
    /\ result.kind = "Err" \/ pc = "panicked"
    /\ step = "idle" \/ pc = "panicked"

\* C25: in one input cycle a failed command that is no cd leads to exactly one
\* diagnostic oracle call, never to one by execute and another by the session.
C25_OneDiagnosticCall ==
    /\ ExecutorCalls + SessionCalls <= 1
    /\ FailedCycleOver => ExecutorCalls + SessionCalls = 1

-----------------------------------------------------------------------------
(* Claims about DirectoryState and the OS working directory *)

\* DirectoryState names the directory the process is in
SameDirectory ==
    /\ CwdReadable
    /\ Resolve(current_dir) /= NoDir
    /\ Canon(Resolve(current_dir)) = os_cwd

\* C26: at the return of every execute call DirectoryState and the OS working
\* directory denote the same directory, and the call has changed both or
\* neither.
C26_DirectoriesAgree ==
    Returned =>
        /\ SameDirectory
        /\ (os_cwd /= cwd_before) <=>
               (Resolve(current_dir) /= Resolve(dir_before))

\* C26 (amended): at the return of every execute call, if the OS working
\* directory can be read then DirectoryState denotes it; and a call that
\* started with a readable OS working directory has changed both or neither.
C26_DirectoriesAgreeWhenReadable ==
    Returned =>
        /\ CwdReadable => SameDirectory
        /\ cwd_before /= <<>> =>
               ((os_cwd /= cwd_before) <=>
                    (Resolve(current_dir) /= Resolve(dir_before)))

\* a cd has succeeded from a working directory that could not be read: both
\* are at /a now
C26_Witness ==
    /\ Returned
    /\ IsCd(raw)
    /\ result.kind = "Ok"
    /\ cwd_before = <<>>
    /\ os_cwd = <<"/", "a">>
    /\ current_dir = <<"/", "/", "a">>

====
